---- MODULE Spec2Model ----
(***************************************************************************)
(* Model of power-calc.py: the power calculator calc_power and the field  *)
(* resolver / batch driver clean_or_compute_data, as called by __main__   *)
(* (a clean pass followed by a compute pass over the same dataset object  *)
(* and the same status accumulator).                                      *)
(*                                                                         *)
(* Numbers are fixed-point integers counting tenths: 1200 is 120.0 and 9  *)
(* is 0.9.  The inputs are chosen so that every product the code forms is *)
(* exact in tenths; math.sqrt is the square root rounded down to a tenth. *)
(* The interpreter runs with assertions enabled (no -O), as the shebang   *)
(* line of the script runs it.                                            *)
(***************************************************************************)
EXTENDS Integers, Sequences, FiniteSets, TLC

VARIABLES json_data, status, iter_order, log, calc_calls

vars == <<json_data, status, iter_order, log, calc_calls>>

\* Bounds of the model.
MaxRecords == 2
MaxCalls == 2

(***************************************************************************)
(* Python values                                                           *)
(***************************************************************************)
None == [type |-> "None"]
Num(n) == [type |-> "number", val |-> n]
Str == [type |-> "str"]
Dict(f) == [type |-> "dict", items |-> f]

Tenths(n) == n * 10

\* x * y on numbers in tenths.
Mul(x, y) == (x * y) \div Tenths(1)

RECURSIVE IsqrtIn(_, _, _)
IsqrtIn(n, lo, hi) ==
    IF lo >= hi THEN lo
    ELSE LET mid == (lo + hi + 1) \div 2
         IN IF mid * mid <= n THEN IsqrtIn(n, mid, hi) ELSE IsqrtIn(n, lo, mid - 1)

\* math.sqrt on a non-negative number in tenths, rounded down to a tenth.
Sqrt(x) == IsqrtIn(x * Tenths(1), 0, 46340)

\* What a call gives back: a value, or an exception with the line raising it.
Returned(x) == [exc |-> "none", line |-> 0, value |-> x]
Raised(e, l) == [exc |-> e, line |-> l, value |-> <<>>]

AllAbsent == <<None, None, None>>

(***************************************************************************)
(* calc_power                                                              *)
(***************************************************************************)
\* A faulty variant: the radicand adds the squares instead of subtracting.
calc_power_sum(volts, amps, pf) ==
    IF volts = None \/ amps = None \/ pf = None
    THEN Raised("AssertionError", 87)
    ELSE IF volts.type # "number" \/ amps.type # "number" \/ pf.type # "number"
    THEN Returned(AllAbsent)
    ELSE LET s == Mul(volts.val, amps.val)
             p == Mul(s, pf.val)
             radicand == Mul(s, s) + Mul(p, p)
         IN Returned(<<Num(p), Num(Sqrt(radicand)), Num(s)>>)

calc_power(volts, amps, pf) ==
    IF volts = None \/ amps = None \/ pf = None
    THEN Raised("AssertionError", 87)       \* the assert is not caught below
    ELSE IF volts.type # "number" \/ amps.type # "number" \/ pf.type # "number"
    THEN Returned(AllAbsent)                \* TypeError, caught
    ELSE LET s == Mul(volts.val, amps.val)
             p == Mul(s, pf.val)
             radicand == Mul(s, s) - Mul(p, p)
         IN IF radicand < 0
            THEN Returned(AllAbsent)        \* math.sqrt raises ValueError, caught
            ELSE Returned(<<Num(p), Num(Sqrt(radicand)), Num(s)>>)

\* Inputs of the direct calls of calc_power.
VoltsInputs == {None, Str, Num(0), Num(1200), Num(2300)}
AmpsInputs == {None, Num(50), Num(100)}
PfInputs == {None, Num(-8), Num(0), Num(6), Num(8), Num(9), Num(10), Num(15)}

CalcPower ==
    /\ \E volts \in VoltsInputs, amps \in AmpsInputs, pf \in PfInputs :
          calc_calls' = <<[volts |-> volts, amps |-> amps, pf |-> pf,
                           out |-> calc_power(volts, amps, pf)]>>
    /\ UNCHANGED <<json_data, status, iter_order, log>>

(***************************************************************************)
(* Allowable names and their iteration order                               *)
(***************************************************************************)
V_NAMES == {"v", "V", "Volts", "Voltage"}
I_NAMES == {"i", "I", "Amps", "Amperes", "Current"}
PF_NAMES == {"pf", "PF", "Power Factor"}

\* The keys of a_keys, in insertion order.
a_keys == <<"V_NAMES", "I_NAMES", "PF_NAMES">>

a_key_set == {a_keys[i] : i \in 1..Len(a_keys)}

NamesOf(name) ==
    CASE name = "V_NAMES" -> V_NAMES
      [] name = "I_NAMES" -> I_NAMES
      [] name = "PF_NAMES" -> PF_NAMES

acceptable_keys == V_NAMES \cup I_NAMES \cup PF_NAMES

Reverse(s) == [i \in 1..Len(s) |-> s[Len(s) + 1 - i]]

\* Iterating a set of strings follows the strings' hashes, which are seeded
\* per process: the order is fixed during a run and arbitrary between runs.
\* Two orders, one the reverse of the other, give every pair of names both
\* of its relative orders.
ForwardOrder ==
    [V_NAMES |-> <<"v", "V", "Volts", "Voltage">>,
     I_NAMES |-> <<"i", "I", "Amps", "Amperes", "Current">>,
     PF_NAMES |-> <<"pf", "PF", "Power Factor">>,
     a_keys |-> a_keys]

IterOrders ==
    {ForwardOrder, [n \in DOMAIN ForwardOrder |-> Reverse(ForwardOrder[n])]}

\* list(set(S)) for a subset S of the set that the sequence order enumerates.
ListOfSet(order, S) == SelectSeq(order, LAMBDA x : x \in S)

\* x in l, for a list l.
InList(x, l) == \E i \in 1..Len(l) : l[i] = x

(***************************************************************************)
(* Dictionaries                                                            *)
(***************************************************************************)
EmptyDict == [x \in {} |-> 0]
Put(d, k, x) == [y \in DOMAIN d \cup {k} |-> IF y = k THEN x ELSE d[y]]
Del(d, ks) == [y \in DOMAIN d \ ks |-> d[y]]

(***************************************************************************)
(* clean_or_compute_data: the body of the loop over json_data.items()      *)
(***************************************************************************)
\* A faulty variant: nothing is ever ignored.
ignored_keys_none(v) == {}

\* Lines 115-116: the keys of the record that no synonym set holds.
ignored_keys(v) == DOMAIN v \ acceptable_keys

\* Lines 124-129: the scan of the record's keys for the synonyms of `name`.
\* Every synonym the record holds overwrites found[name], so the one
\* iterated last stays.
found_key(order, name, v_keys) ==
    LET hits == ListOfSet(order[name], v_keys \cap NamesOf(name))
    IN hits[Len(hits)]

\* The keys of found after the scan: the quantities with a synonym in the record.
found_names(v_keys) == {name \in a_key_set : v_keys \cap NamesOf(name) # {}}

\* A faulty variant: a missing power factor is left as the analysis had it.
fill_missing_stale(order, analysis, found) ==
    IF Cardinality(found) # Len(a_keys)
    THEN LET missing == ListOfSet(order.a_keys, a_key_set \ found)
         IN IF InList("PF_NAMES", missing)
            THEN analysis
            ELSE Put(analysis, missing[1], None)
    ELSE analysis

\* A faulty variant: the assumed power factor is 1.0.
fill_missing_unity(order, analysis, found) ==
    IF Cardinality(found) # Len(a_keys)
    THEN LET missing == ListOfSet(order.a_keys, a_key_set \ found)
         IN IF InList("PF_NAMES", missing)
            THEN Put(analysis, missing[1], Num(10))
            ELSE Put(analysis, missing[1], None)
    ELSE analysis

\* Lines 130-135: the value given to the first missing quantity.
fill_missing(order, analysis, found) ==
    IF Cardinality(found) # Len(a_keys)
    THEN LET missing == ListOfSet(order.a_keys, a_key_set \ found)
         IN IF InList("PF_NAMES", missing)
            THEN Put(analysis, missing[1], Num(9))
            ELSE Put(analysis, missing[1], None)
    ELSE analysis

\* A faulty variant: one quantity found is enough.
enough_found_one(found) == Cardinality(found) >= 1

\* Line 136: the condition asserted.
enough_found(found) == Cardinality(found) >= 2

\* The state the loop carries: the dataset (mutated in place), the status
\* accumulator, analysis and results (both created once per call), and the
\* exception that ended the call, if any, with the index of its record.
LoopState(data, stat) ==
    [data |-> data, status |-> stat, analysis |-> EmptyDict, results |-> <<>>,
     exc |-> "none", line |-> 0, at |-> 0]

\* Lines 114-140 for the record at index idx.
loop_body(st, idx, order, do_compute) ==
    LET k == st.data[idx].id
        v == st.data[idx].v
    IN IF v.type # "dict"
       THEN [st EXCEPT !.exc = "AttributeError", !.line = 114, !.at = idx]
       ELSE
       LET ignores == ignored_keys(v.items)
           items == Del(v.items, ignores)
           data == [st.data EXCEPT ![idx].v = Dict(items)]
           stat == IF ignores # {} THEN Put(st.status, k, ignores) ELSE st.status
           v_keys == DOMAIN items
           found == found_names(v_keys)
           scanned == [name \in DOMAIN st.analysis \cup found |->
                          IF name \in found
                          THEN Num(items[found_key(order, name, v_keys)])
                          ELSE st.analysis[name]]
           analysis == fill_missing(order, scanned, found)
           cleaned == [st EXCEPT !.data = data, !.status = stat, !.analysis = analysis]
       IN IF ~enough_found(found)
          THEN [cleaned EXCEPT !.exc = "AssertionError", !.line = 136, !.at = idx]
          ELSE IF ~do_compute
          THEN cleaned
          ELSE IF ~(a_key_set \subseteq DOMAIN analysis)
          THEN [cleaned EXCEPT !.exc = "KeyError", !.line = 138, !.at = idx]
          ELSE
          LET calculated == calc_power(analysis["V_NAMES"], analysis["I_NAMES"],
                                       analysis["PF_NAMES"])
          IN IF calculated.exc # "none"
             THEN [cleaned EXCEPT !.exc = calculated.exc, !.line = calculated.line,
                                  !.at = idx]
             ELSE [cleaned EXCEPT !.results =
                      Append(@, [id |-> k, p |-> calculated.value[1],
                                 q |-> calculated.value[2], s |-> calculated.value[3]])]

\* Line 113: the loop, which an exception leaves at once.
RECURSIVE loop(_, _, _, _)
loop(st, idx, order, do_compute) ==
    IF idx > Len(st.data) \/ st.exc # "none"
    THEN st
    ELSE loop(loop_body(st, idx, order, do_compute), idx + 1, order, do_compute)

\* The whole call, with the default acceptable_names.
clean_or_compute_data(data, stat, order, do_compute) ==
    loop(LoopState(data, stat), 1, order, do_compute)

(***************************************************************************)
(* The callers: the datasets they load and the calls they make             *)
(***************************************************************************)
\* Raw records as json.load gives them: mappings of field names to numbers
\* (in tenths), and one value that is no mapping.
RawRecords ==
    {Dict("Voltage" :> 1200 @@ "Amperes" :> 100 @@ "Power Factor" :> 8),
     Dict("v" :> 2300 @@ "i" :> 50 @@ "extra" :> 990),
     Dict("V" :> 1200 @@ "I" :> 100 @@ "PF" :> 15),
     Dict("v" :> 2300 @@ "Voltage" :> 1200 @@ "Amperes" :> 100),
     Dict("Amperes" :> 100 @@ "pf" :> 8),
     Dict("Volts" :> 2300 @@ "PF" :> 6 @@ "note" :> 10),
     Dict("Voltage" :> 1200 @@ "extra" :> 990),
     Dict(EmptyDict),
     Num(50)}

IdNames == <<"load1", "load2", "load3", "load4">>
Ids == {IdNames[i] : i \in 1..MaxRecords}

\* The datasets: at most MaxRecords records under distinct identifiers, in
\* any order of the identifiers.
Datasets ==
    UNION {{[i \in 1..n |-> [id |-> ids[i], v |-> recs[i]]] :
               ids \in {f \in [1..n -> Ids] : \A i, j \in 1..n : f[i] = f[j] => i = j},
               recs \in [1..n -> RawRecords]} : n \in 0..MaxRecords}

Init ==
    /\ json_data \in Datasets
    /\ status = EmptyDict
    /\ iter_order \in IterOrders
    /\ log = <<>>
    /\ calc_calls = <<>>

\* One call of clean_or_compute_data on the caller's dataset object with the
\* caller's status accumulator (lines 166 and 174 pass the same two objects).
Call(do_compute) ==
    /\ LET st == clean_or_compute_data(json_data, status, iter_order, do_compute)
       IN /\ json_data' = st.data
          /\ status' = st.status
          /\ log' = Append(log,
                [do_compute |-> do_compute,
                 arg |-> json_data,
                 status_before |-> status,
                 exc |-> st.exc, line |-> st.line, at |-> st.at,
                 returned |-> IF st.exc # "none" THEN "nothing"
                              ELSE IF do_compute THEN "results" ELSE "json_data",
                 results |-> IF st.exc = "none" /\ do_compute THEN st.results ELSE <<>>,
                 data |-> st.data,
                 status |-> st.status])
    /\ UNCHANGED <<iter_order, calc_calls>>

\* Line 166: the clean pass.
Clean ==
    /\ Len(log) < MaxCalls
    /\ Call(FALSE)

\* Line 174: the compute pass.
Compute ==
    /\ Len(log) < MaxCalls
    /\ Call(TRUE)

Next == Clean \/ Compute

Spec == Init /\ [][Next]_vars

\* The direct calls of calc_power, on no dataset.
InitCalc ==
    /\ json_data = <<>>
    /\ status = EmptyDict
    /\ iter_order = ForwardOrder
    /\ log = <<>>
    /\ calc_calls = <<>>

NextCalc == CalcPower

SpecCalc == InitCalc /\ [][NextCalc]_vars

(***************************************************************************)
(* Properties                                                              *)
(***************************************************************************)
Calls == {log[n] : n \in 1..Len(log)}

IsDict(rec) == rec.type = "dict"

\* The quantities that have a synonym among the keys of a raw record.
Quantities(rec) == {name \in a_key_set : DOMAIN rec.items \cap NamesOf(name) # {}}

Has(rec, name) == IsDict(rec) /\ name \in Quantities(rec)

\* The loop of the call got as far as the record at idx.
Reached(call, idx) == call.at = 0 \/ call.at >= idx

\* The record at idx resolves and computes when processed on its own.
WellFormed(rec) == Has(rec, "V_NAMES") /\ Has(rec, "I_NAMES")

\* The ignored keys the accumulator reports for an identifier.
Reported(stat, id) == IF id \in DOMAIN stat THEN stat[id] ELSE {}

CanonicalKeys == {"voltage", "current", "power_factor"}

\* C1: calc_power called with any of volts, amps or pf absent returns
\* (None, None, None) and does not raise.
C1_AbsentInputGivesAllAbsent ==
    \A n \in 1..Len(calc_calls) :
        LET c == calc_calls[n]
        IN (c.volts = None \/ c.amps = None \/ c.pf = None)
              => c.out = Returned(AllAbsent)

C3_DefaultPowerFactor ==
    \A call \in Calls :
        (call.do_compute /\ call.exc = "none") =>
            \A idx \in 1..Len(call.arg) :
                LET rec == call.arg[idx].v
                IN /\ Has(rec, "V_NAMES") /\ Has(rec, "I_NAMES")
                   /\ \E r \in {call.results[m] : m \in 1..Len(call.results)} :
                        /\ r.id = call.arg[idx].id
                        /\ \E vk \in DOMAIN rec.items \cap V_NAMES,
                              ik \in DOMAIN rec.items \cap I_NAMES :
                             LET s == (rec.items[vk] * rec.items[ik]) \div 10
                             IN IF ~Has(rec, "PF_NAMES")
                                THEN r.s = Num(s) /\ r.p = Num((s * 9) \div 10)
                                ELSE \E pk \in DOMAIN rec.items \cap PF_NAMES :
                                        \/ r.s = Num(s) /\ r.p = Num((s * rec.items[pk]) \div 10)
                                        \/ r.s = None /\ r.p = None /\ rec.items[pk] > 10

C3_Witness ==
    \E call \in Calls :
        /\ call.do_compute /\ call.exc = "none"
        /\ \E idx \in 1..Len(call.arg) :
              /\ WellFormed(call.arg[idx].v)
              /\ ~Has(call.arg[idx].v, "PF_NAMES")
              /\ idx <= Len(call.results)
              /\ call.results[idx].s = Num(11500)
              /\ call.results[idx].p = Num(10350)

\* C4 as claimed: every record that lacks a voltage synonym or lacks a current
\* synonym fails resolution with the insufficient-data error, in the clean
\* pass and in the compute pass.
C4_MissingVoltageOrCurrentFails ==
    \A call \in Calls :
        \A idx \in 1..Len(call.arg) :
            LET rec == call.arg[idx].v
            IN (IsDict(rec) /\ ~WellFormed(rec) /\ Reached(call, idx))
                  => (call.exc = "AssertionError" /\ call.line = 136 /\ call.at = idx)

\* C4 as amended: a record fails resolution with the insufficient-data error,
\* in the clean pass and in the compute pass, exactly when fewer than two of
\* the three quantities have a synonym in it.
C4_FewerThanTwoFoundFails ==
    \A call \in Calls :
        \A idx \in 1..Len(call.arg) :
            LET rec == call.arg[idx].v
            IN (IsDict(rec) /\ Reached(call, idx))
                  => (Cardinality(Quantities(rec)) < 2
                         <=> (call.exc = "AssertionError" /\ call.line = 136
                                 /\ call.at = idx))

C4_Witness ==
    \E call \in Calls :
        /\ call.do_compute /\ call.exc = "AssertionError"
        /\ call.line = 136 /\ call.at = 2
        /\ WellFormed(call.arg[1].v)
        /\ Cardinality(Quantities(call.arg[2].v)) = 1

C6_CallerDatasetNotMutated ==
    \A call \in Calls : call.data = call.arg

\* C7: a resolution error on one record is confined to it: the other
\* well-formed records of the dataset are still cleaned and, in a compute
\* pass, still get their result entries in input order.
C7_ErrorConfinedToRecord ==
    \A call \in Calls :
        (call.exc \in {"AssertionError", "AttributeError"} /\ call.line \in {114, 136}) =>
            \A idx \in 1..Len(call.arg) :
                (idx # call.at /\ WellFormed(call.arg[idx].v)) =>
                    /\ DOMAIN call.data[idx].v.items \subseteq acceptable_keys
                    /\ call.do_compute =>
                          \E m \in 1..Len(call.results) :
                              call.results[m].id = call.arg[idx].id

\* C8: a clean pass on the output of a clean pass returns the same records,
\* raises no error and reports an empty ignored set for every identifier,
\* also with the status accumulator of the first pass.
C8_CleanIdempotent ==
    \A n \in 1..(Len(log) - 1) :
        (~log[n].do_compute /\ log[n].exc = "none" /\ ~log[n + 1].do_compute) =>
            /\ log[n + 1].exc = "none"
            /\ log[n + 1].data = log[n].data
            /\ \A idx \in 1..Len(log[n + 1].arg) :
                  Reported(log[n + 1].status, log[n + 1].arg[idx].id) = {}

\* C9: after a clean pass the ignored set reported for every identifier is
\* exactly the record's keys outside the three synonym sets (nothing reported
\* when there are none, whatever calls came before), those keys are gone from
\* the cleaned record and every other key is kept with its value.
C9_IgnoredSetExact ==
    \A call \in Calls :
        (~call.do_compute /\ call.exc = "none") =>
            \A idx \in 1..Len(call.arg) :
                LET old == call.arg[idx].v.items
                    new == call.data[idx].v.items
                IN /\ Reported(call.status, call.arg[idx].id) = DOMAIN old \ acceptable_keys
                   /\ DOMAIN new = DOMAIN old \cap acceptable_keys
                   /\ \A key \in DOMAIN new : new[key] = old[key]

\* C10: in every compute pass that returns, the results have one entry per
\* input identifier in input order, and the entry of each record is the one
\* that processing the record alone gives, whatever records precede it.
C10_NoCarryOver ==
    \A call \in Calls :
        (call.do_compute /\ call.exc = "none") =>
            /\ Len(call.results) = Len(call.arg)
            /\ \A idx \in 1..Len(call.arg) :
                  LET alone == clean_or_compute_data(<<call.arg[idx]>>, EmptyDict,
                                                     iter_order, TRUE)
                  IN /\ call.results[idx].id = call.arg[idx].id
                     /\ alone.exc = "none"
                     /\ alone.results = <<call.results[idx]>>

C10_Witness ==
    \E call \in Calls :
        /\ call.do_compute /\ call.exc = "none" /\ Len(call.arg) = 2
        /\ Has(call.arg[1].v, "PF_NAMES")
        /\ ~Has(call.arg[2].v, "PF_NAMES")
        /\ call.results[1].p = Num(9600)
        /\ call.results[2].p = Num(10350)

====
